---------------------------- MODULE Spec2Model ----------------------------
(***************************************************************************)
(* Hill cipher image encryption tool: the cipher engine of                 *)
(* src/hill_cipher.py (class HillCipher) as a state machine.               *)
(*                                                                         *)
(* A matrix is a sequence of rows, a block / flattened channel a sequence  *)
(* of integers.  Python's None is the empty sequence.  A Python call that  *)
(* can raise is an operator returning a record [exc, val]: exc = NoExc     *)
(* when the call returns val, otherwise the exception's message.           *)
(***************************************************************************)
EXTENDS Integers, Sequences, FiniteSets, TLC

VARIABLES
    block_size,          \* HillCipher.block_size
    key_matrix,          \* HillCipher.key_matrix
    inverse_key_matrix,  \* HillCipher.inverse_key_matrix
    pc,                  \* position of the instance's caller: "idle", or inside the
                         \* sampling loop of generate_random_key
    keyfile,             \* content of the key file on disk
    images,              \* image files on disk: path -> NoImage or [mode, shape, data]
    sidecar,             \* the metadata file <output>_metadata.json of the ciphertext
    caller,              \* local variables of a script driving the block-level API
    outcome              \* what the last public operation returned

vars == <<block_size, key_matrix, inverse_key_matrix, pc, keyfile, images, sidecar,
          caller, outcome>>

-----------------------------------------------------------------------------
(* Bounds of the model *)

\* block values handed to encrypt_block are 0..MaxVal and 255-MaxVal..255
MaxVal == 1
\* entries of the systematically enumerated 2x2 keys are 0..MaxEntry and 255
MaxEntry == 3
\* the rounding error of a float64 determinant is at most MaxUlps units of resolution
MaxUlps == 1
\* the sequences handed to pad_data have at most MaxLen elements
MaxLen == 5
\* the block sizes of the instances that pad them are 1..MaxPadBlock
MaxPadBlock == 4
\* gcd and mod_inverse are called with a in 0..MaxArg and m in 0..MaxMod, and with
\* a in 0..(256 + MaxOver) for m = 256
MaxArg == 40
MaxMod == 30
MaxOver == 4

-----------------------------------------------------------------------------
(* Values *)

None == <<>>
NoExc == "none"

Modulus == 256

Returned(v) == [exc |-> NoExc, val |-> v]
Raised(msg) == [exc |-> msg, val |-> None]

RECURSIVE SumTo(_, _)
\* sum of f[1..n]
SumTo(f, n) == IF n = 0 THEN 0 ELSE SumTo(f, n - 1) + f[n]

Rows(m) == Len(m)
Cols(m) == IF Len(m) = 0 THEN 0 ELSE Len(m[1])
IsSquare(m) == Rows(m) = Cols(m)

\* np.delete(seq, i): the sequence without its i-th element, 1-based
Delete(seq, i) == SubSeq(seq, 1, i - 1) \o SubSeq(seq, i + 1, Len(seq))

\* np.delete(np.delete(matrix, i, axis=0), j, axis=1), 1-based
Minor(m, i, j) ==
    LET kept == Delete(m, i)
    IN  [r \in 1..Len(kept) |-> Delete(kept[r], j)] \o <<>>

Sign(k) == IF k % 2 = 0 THEN 1 ELSE -1

RECURSIVE Determinant(_)
\* The integer that int(np.round(np.linalg.det(m))) yields for a square m.  For the
\* matrices of this model (dimension <= 4, entries in [0,255]) the LU determinant of
\* LAPACK is within 0.5 of the exact determinant, so rounding yields exactly it (see
\* np_linalg_det and np_round below).
Determinant(m) ==
    IF Rows(m) = 0 THEN 1
    ELSE IF Rows(m) = 1 THEN m[1][1]
    ELSE SumTo([j \in 1..Cols(m) |-> Sign(1 + j) * m[1][j] * Determinant(Minor(m, 1, j))],
               Cols(m))

\* A float64 value is [whole, ulps]: the integer `whole` plus `ulps` units of
\* resolution, UlpsPerUnit of which make 1.  The resolution is chosen so that MaxUlps
\* units are less than one half.
UlpsPerUnit == 2 * MaxUlps + 2
Float(whole, ulps) == [whole |-> whole, ulps |-> ulps]

\* the rounding errors np.linalg.det can make, which depend on the LAPACK build
FloatErrors == (-MaxUlps)..MaxUlps

\* np.linalg.det(m) of a square m of dimension <= 4 with entries in [0,255]: the LU
\* factorisation in float64 yields the determinant up to a rounding error
np_linalg_det(m, err) == Float(Determinant(m), err)

\* int(np.round(x)): the nearest integer (no tie occurs below one half)
np_round(x) == x.whole + ((2 * x.ulps + UlpsPerUnit) \div (2 * UlpsPerUnit))

\* np.linalg.det raises LinAlgError for a matrix that is not square
linalg_det(m) ==
    IF IsSquare(m) THEN Returned(Determinant(m))
    ELSE Raised("Last 2 dimensions of the array must be square")

-----------------------------------------------------------------------------
(* Modular arithmetic: gcd, mod_inverse, matrix_inverse_mod *)

RECURSIVE gcd(_, _)
gcd(a, b) == IF b = 0 THEN a ELSE gcd(b, a % b)

RECURSIVE extended_gcd(_, _)
\* returns <<gcd, x, y>>
extended_gcd(a, b) ==
    IF a = 0 THEN <<b, 0, 1>>
    ELSE LET r == extended_gcd(b % a, a)
         IN  <<r[1], r[3] - (b \div a) * r[2], r[2]>>

\* mod_inverse without the gcd test
mod_inverse_unchecked(a, m) ==
    LET x == extended_gcd(a % m, m)[2]
    IN  Returned(((x % m) + m) % m)

\* mod_inverse that returns the coefficient of the extended Euclidean algorithm as it is
mod_inverse_raw(a, m) ==
    IF gcd(a, m) # 1 THEN Raised("Modular inverse does not exist")
    ELSE IF m = 0 THEN Raised("integer modulo by zero")
    ELSE Returned(extended_gcd(a % m, m)[2])

\* a % m raises ZeroDivisionError for m = 0, which the gcd test lets through for a = 1
mod_inverse(a, m) ==
    IF gcd(a, m) # 1 THEN Raised("Modular inverse does not exist")
    ELSE IF m = 0 THEN Raised("integer modulo by zero")
    ELSE LET x == extended_gcd(a % m, m)[2]
         IN  Returned(((x % m) + m) % m)

\* a swap without the reduction
gcd_step_swap(a, b) == <<b, a>>

\* the body of the loop of gcd: a, b = b, a % b
gcd_step(a, b) == <<b, a % b>>

\* the closed form without the sign change of the off-diagonal entries
Adjugate2NoSign(m) == <<<<m[2][2], m[1][2]>>, <<m[2][1], m[1][1]>>>>

\* the 2x2 closed form of the adjugate (entries not yet reduced)
Adjugate2(m) == <<<<m[2][2], -m[1][2]>>, <<-m[2][1], m[1][1]>>>>

\* the cofactor matrix stored at [i, j] instead of [j, i]
AdjugateNNoTranspose(m, mod) ==
    [i \in 1..Rows(m) |->
        [j \in 1..Cols(m) |-> (Sign(i + j) * Determinant(Minor(m, i, j))) % mod]]

\* the cofactor method: adjugate[j, i] = ((-1)**(i+j) * det(minor(i, j))) % mod
AdjugateN(m, mod) ==
    [j \in 1..Rows(m) |->
        [i \in 1..Cols(m) |-> (Sign(i + j) * Determinant(Minor(m, i, j))) % mod]]

matrix_inverse_mod(matrix, mod) ==
    LET d == linalg_det(matrix) IN
    IF d.exc # NoExc THEN Raised(d.exc)
    ELSE LET det == d.val % mod
             det_inv == mod_inverse(det, mod)
         IN  IF det_inv.exc # NoExc THEN Raised(det_inv.exc)
             ELSE LET adjugate == IF Rows(matrix) = 2 THEN Adjugate2(matrix)
                                  ELSE AdjugateN(matrix, mod)
                  IN  Returned([i \in 1..Rows(matrix) |->
                                  [j \in 1..Cols(matrix) |->
                                      (det_inv.val * adjugate[i][j]) % mod]])

\* matrix product modulo mod, used to state that one matrix inverts another
MatMulMod(a, b, mod) ==
    [i \in 1..Rows(a) |->
        [j \in 1..Cols(b) |->
            SumTo([k \in 1..Cols(a) |-> a[i][k] * b[k][j]], Cols(a)) % mod]]

Identity(n) == [i \in 1..n |-> [j \in 1..n |-> IF i = j THEN 1 ELSE 0]]

\* the matrix is a unit of the matrix ring over Z/256Z
Invertible(m) ==
    /\ m # None
    /\ IsSquare(m)
    /\ gcd(Determinant(m) % Modulus, Modulus) = 1

-----------------------------------------------------------------------------
(* Block codec: pad_data, encrypt_block, decrypt_block *)

Zeros(n) == [i \in 1..n |-> 0]

\* a padding that appends block_size - remainder zeros whatever the remainder is
pad_data_always(data, bs) == data \o Zeros(bs - (Len(data) % bs))

pad_data(data, bs) ==
    LET remainder == Len(data) % bs
    IN  IF remainder # 0 THEN data \o Zeros(bs - remainder) ELSE data

\* the product without the reduction modulo 256
dot_unreduced(matrix, block) ==
    IF Cols(matrix) # Len(block) THEN Raised("shapes not aligned")
    ELSE Returned([i \in 1..Rows(matrix) |->
                     SumTo([j \in 1..Cols(matrix) |-> matrix[i][j] * block[j]],
                           Cols(matrix))])

\* the product with the transposed matrix: result[i] = sum over j of matrix[j][i] * block[j]
dot_transposed(matrix, block) ==
    IF Cols(matrix) # Len(block) THEN Raised("shapes not aligned")
    ELSE Returned([i \in 1..Cols(matrix) |->
                     SumTo([j \in 1..Rows(matrix) |-> matrix[j][i] * block[j]],
                           Rows(matrix)) % Modulus])

\* np.dot(matrix, block) % 256 as uint8: one value per row of the matrix; np.dot raises
\* when the matrix has not as many columns as the block has values
dot_mod(matrix, block) ==
    IF Cols(matrix) # Len(block) THEN Raised("shapes not aligned")
    ELSE Returned([i \in 1..Rows(matrix) |->
                     SumTo([j \in 1..Cols(matrix) |-> matrix[i][j] * block[j]],
                           Cols(matrix)) % Modulus])

encrypt_block(km, block) ==
    IF km = None THEN Raised("Key matrix not set") ELSE dot_mod(km, block)

decrypt_block(ikm, block) ==
    IF ikm = None THEN Raised("Inverse key matrix not calculated")
    ELSE dot_mod(ikm, block)

Min(a, b) == IF a < b THEN a ELSE b

RECURSIVE BlockLoop(_, _, _, _, _)
\* for i in range(start, len(data), bs): out.extend(encrypt_block / decrypt_block(data[i:i+bs]))
\* start is 0-based; the first block that raises aborts the loop
BlockLoop(matrix, decrypting, data, bs, start) ==
    IF start >= Len(data) THEN Returned(<<>>)
    ELSE LET block == SubSeq(data, start + 1, Min(start + bs, Len(data)))
             r == IF decrypting THEN decrypt_block(matrix, block)
                  ELSE encrypt_block(matrix, block)
         IN  IF r.exc # NoExc THEN r
             ELSE LET rest == BlockLoop(matrix, decrypting, data, bs, start + bs)
                  IN  IF rest.exc # NoExc THEN rest ELSE Returned(r.val \o rest.val)

-----------------------------------------------------------------------------
(* Image codec on decoded pixel arrays.  An array is [shape, data]: data is the array *)
(* flattened in row-major (C) order, shape is <<H, W>> or <<H, W, C>>.                *)

RECURSIVE Prod(_)
Prod(shape) == IF Len(shape) = 0 THEN 1 ELSE Head(shape) * Prod(Tail(shape))

\* image_array[:, :, channel].flatten() of an array of shape <<H, W, C>>, channel 1-based
ChannelData(shape, data, channel) ==
    [k \in 1..(shape[1] * shape[2]) |-> data[(k - 1) * shape[3] + channel]]

RECURSIVE ChannelLoop(_, _, _, _, _, _, _)
\* for channel in range(original_shape[2]): flatten, pad, run the block loop, append.
\* Returns the list of transformed channels.
ChannelLoop(matrix, decrypting, bs, shape, data, nchannels, channel) ==
    IF channel > nchannels THEN Returned(<<>>)
    ELSE IF Len(shape) # 3 THEN Raised("too many indices for array")
    ELSE IF channel > shape[3] THEN Raised("index out of bounds")
    ELSE LET r == BlockLoop(matrix, decrypting,
                            pad_data(ChannelData(shape, data, channel), bs), bs, 0)
         IN  IF r.exc # NoExc THEN r
             ELSE LET rest == ChannelLoop(matrix, decrypting, bs, shape, data,
                                          nchannels, channel + 1)
                  IN  IF rest.exc # NoExc THEN rest
                      ELSE Returned(<<r.val>> \o rest.val)

\* np.array(channels).T[:H*W].reshape(original_shape), flattened: pixel k of channel c
\* lands at (k-1)*C + c.  reshape raises when fewer than H*W values per channel exist.
Recombine(channels, original_shape) ==
    LET hw == original_shape[1] * original_shape[2]
        nc == original_shape[3]
    IN  IF Len(channels[1]) < hw THEN Raised("cannot reshape array")
        ELSE Returned([n \in 1..(hw * nc) |->
                         channels[((n - 1) % nc) + 1][((n - 1) \div nc) + 1]])

\* np.array(out)[:np.prod(original_shape)].reshape(original_shape)
TruncateReshape(out, original_shape) ==
    IF Len(out) < Prod(original_shape) THEN Raised("cannot reshape array")
    ELSE Returned(SubSeq(out, 1, Prod(original_shape)))

\* The body shared by encrypt_image and decrypt_image between loading the array and
\* saving the result: the color branch or the grayscale branch.
transform_array(matrix, decrypting, bs, shape, data, original_shape) ==
    IF Len(original_shape) = 3
    THEN LET chans == ChannelLoop(matrix, decrypting, bs, shape, data,
                                  original_shape[3], 1)
         IN  IF chans.exc # NoExc THEN chans
             ELSE Recombine(chans.val, original_shape)
    ELSE LET out == BlockLoop(matrix, decrypting, pad_data(data, bs), bs, 0)
         IN  IF out.exc # NoExc THEN out
             ELSE TruncateReshape(out.val, original_shape)

\* Image.fromarray(array, mode=mode) accepts a 2-D array for mode L, an H x W x 3
\* array for mode RGB and an H x W x 4 array for mode RGBA
ModeFits(mode, shape) ==
    \/ mode = "L" /\ Len(shape) = 2
    \/ mode = "RGB" /\ Len(shape) = 3 /\ shape[3] = 3
    \/ mode = "RGBA" /\ Len(shape) = 3 /\ shape[3] = 4

-----------------------------------------------------------------------------
(* Inputs *)

\* the key sizes the GUI offers
BlockSizes == {2, 3, 4}

K2a == <<<<3, 2>>, <<5, 7>>>>                      \* determinant 11
K2b == <<<<255, 4>>, <<7, 9>>>>                    \* determinant 2267
S2  == <<<<2, 4>>, <<1, 2>>>>                      \* determinant 0
K3  == <<<<1, 2, 3>>, <<0, 1, 4>>, <<5, 6, 0>>>>   \* determinant 1
S3  == <<<<1, 2, 3>>, <<4, 5, 6>>, <<7, 8, 9>>>>   \* determinant 0
R32 == <<<<1, 2>>, <<3, 4>>, <<5, 6>>>>            \* 3 x 2
\* determinant 26351023
K4  == <<<<1, 1, 255, 0>>, <<200, 1, 4, 0>>, <<0, 5, 255, 2>>, <<7, 0, 3, 129>>>>
\* determinant 0
S4  == <<<<1, 2, 3, 4>>, <<2, 4, 6, 8>>, <<0, 5, 255, 2>>, <<7, 0, 3, 129>>>>

\* matrices handed to the constructor, set_key_matrix and found in key files
KeyPool == {K2a, K2b, S2, K3, S3, R32, K4, S4}

\* keys and block sizes of the instances that process images
ImageKeys == {K2a, K2b, S2, K3, R32}
ImageBlockSizes == {2, 3}

\* np.random.randint(0, 256, (n, n)): the samples the random source may deliver
randint(n) == {m \in KeyPool : Rows(m) = n /\ Cols(m) = n}

NoImage == [exists |-> FALSE, mode |-> "", shape |-> <<>>, data |-> <<>>]
ImageFile(mode, shape, data) ==
    [exists |-> TRUE, mode |-> mode, shape |-> shape, data |-> data]

\* decoded input images: 8-bit grayscale (mode L), three-channel (mode RGB) and
\* three-channel with alpha (mode RGBA)
ImagePool ==
    { ImageFile("RGBA", <<1, 2, 4>>, <<1, 2, 3, 255, 4, 5, 6, 128>>),
      ImageFile("L", <<1, 5>>, <<1, 2, 3, 4, 5>>),
      ImageFile("L", <<2, 3>>, <<9, 8, 7, 250, 1, 0>>),
      ImageFile("L", <<2, 2>>, <<0, 255, 17, 128>>),
      ImageFile("RGB", <<1, 2, 3>>, <<10, 20, 30, 40, 50, 255>>),
      ImageFile("RGB", <<1, 3, 3>>, <<1, 2, 3, 4, 5, 6, 7, 8, 255>>) }

Paths == {"in.png", "enc.png", "dec.png"}

\* paths a caller may hand to the image operations: those of Paths, a path with two
\* dots and a path without extension
PathPool == Paths \cup {"scan.v2.png", "noext"}

\* path.split('.'): the parts of a path between its dots
PathParts(path) ==
    CASE path = "in.png" -> <<"in", "png">>
      [] path = "enc.png" -> <<"enc", "png">>
      [] path = "dec.png" -> <<"dec", "png">>
      [] path = "scan.v2.png" -> <<"scan", "v2", "png">>
      [] path = "noext" -> <<"noext">>

RECURSIVE JoinDots(_)
\* '.'.join(parts)
JoinDots(parts) ==
    IF Len(parts) = 1 THEN parts[1] ELSE parts[1] \o "." \o JoinDots(Tail(parts))

\* output_path.rsplit('.', 1)[0]: the path up to its last dot, the whole path when it
\* has no dot; the metadata file of an image file is <stem>_metadata.json
Stem(path) ==
    LET parts == PathParts(path)
    IN  IF Len(parts) = 1 THEN parts[1]
        ELSE JoinDots(SubSeq(parts, 1, Len(parts) - 1))
Stems == {Stem(p) : p \in Paths}

\* metadata_path = output_path.rsplit('.', 1)[0] + '_metadata.json' of encrypt_image
encrypt_metadata_path(output_path) == Stem(output_path) \o "_metadata.json"

\* the default metadata_path = None of decrypt_image
NoPath == ""

\* if metadata_path is None: metadata_path = image_path.rsplit('.', 1)[0] + '_metadata.json'
decrypt_metadata_path(image_path, metadata_path) ==
    IF metadata_path = NoPath THEN Stem(image_path) \o "_metadata.json"
    ELSE metadata_path

\* the metadata files are kept by the stem of their path
SidecarOf(metadata_path) == CHOOSE s \in Stems : s \o "_metadata.json" = metadata_path

NoSidecar ==
    [exists |-> FALSE, original_shape |-> <<>>, image_mode |-> "", block_size |-> 0,
     key_matrix |-> None]

\* metadata files found next to the output path before the program runs: none, or one
\* that an earlier encryption of another image (2 x 3, mode L) left there
InitialSidecars ==
    {NoSidecar,
     [exists |-> TRUE, original_shape |-> <<2, 3>>, image_mode |-> "L", block_size |-> 2,
      key_matrix |-> K2a]}

NoKeyFile ==
    [kind |-> "missing", key_matrix |-> None, has_block_size |-> FALSE, block_size |-> 0]
MalformedKeyFile ==
    [kind |-> "malformed", key_matrix |-> None, has_block_size |-> FALSE, block_size |-> 0]
KeyRecord(km, bs) ==
    [kind |-> "record", key_matrix |-> km, has_block_size |-> TRUE, block_size |-> bs]
\* a key record without the block_size field
KeyRecordNoSize(km) ==
    [kind |-> "record", key_matrix |-> km, has_block_size |-> FALSE, block_size |-> 0]

\* key files found on disk before the program runs; save_key writes the others
InitialKeyFiles == {NoKeyFile, MalformedKeyFile, KeyRecordNoSize(K3)}

NoCaller == [stage |-> "none", K |-> None, b |-> <<>>, c |-> <<>>, d |-> <<>>]

Outcome(op, arg, ok, msg, ret) ==
    [op |-> op, arg |-> arg, ok |-> ok, msg |-> msg, ret |-> ret]

-----------------------------------------------------------------------------
(* Key management: __init__, set_key_matrix, generate_random_key, save_key, load_key *)

\* The try block of set_key_matrix: both assignments, in the order of the code; what
\* the except branch leaves behind when matrix_inverse_mod raises.
\* Result: the two fields, the value returned and the message printed.
set_key_matrix_fields(old_inverse, matrix) ==
    LET inv == matrix_inverse_mod(matrix, Modulus)
    IN  [key_matrix |-> matrix,
         inverse_key_matrix |-> IF inv.exc = NoExc THEN inv.val ELSE old_inverse,
         ret |-> inv.exc = NoExc,
         msg |-> inv.exc]

\* HillCipher.__init__(key_matrix, block_size)
Construct(matrix, bs) ==
    IF matrix # None
    THEN LET f == set_key_matrix_fields(None, matrix)
         IN  [block_size |-> bs, key_matrix |-> f.key_matrix,
              inverse_key_matrix |-> f.inverse_key_matrix]
    ELSE [block_size |-> bs, key_matrix |-> None, inverse_key_matrix |-> None]

set_key_matrix(matrix) ==
    /\ pc = "idle"
    /\ LET f == set_key_matrix_fields(inverse_key_matrix, matrix)
       IN  /\ key_matrix' = f.key_matrix
           /\ inverse_key_matrix' = f.inverse_key_matrix
           /\ outcome' = Outcome("set_key_matrix", matrix, f.ret, f.msg, f.ret)
    /\ UNCHANGED <<block_size, pc, keyfile, images, sidecar, caller>>

\* a sampling loop that accepts whatever it draws
SampleAcceptedAlways(key) == TRUE

\* a test of the determinant against 1 in place of the gcd
SampleAcceptedDetOne(key) ==
    LET d == linalg_det(key)
    IN  d.exc = NoExc /\ d.val % Modulus = 1

\* det = int(np.round(np.linalg.det(key))) % 256; if self.gcd(det, 256) == 1
SampleAccepted(key) ==
    LET d == linalg_det(key)
    IN  d.exc = NoExc /\ gcd(d.val % Modulus, Modulus) = 1

\* One pass of the while True loop of generate_random_key with the sample `key`:
\* an accepted sample is set and returned, any other sample starts the next pass.
sampling_pass(key) ==
    IF SampleAccepted(key)
    THEN LET f == set_key_matrix_fields(inverse_key_matrix, key)
         IN  /\ key_matrix' = f.key_matrix
             /\ inverse_key_matrix' = f.inverse_key_matrix
             /\ pc' = "idle"
             /\ outcome' = Outcome("generate_random_key", None, TRUE, NoExc, key)
    ELSE /\ pc' = "generating"
         /\ outcome' = Outcome("generate_random_key", None, FALSE, "sampling", None)
         /\ UNCHANGED <<key_matrix, inverse_key_matrix>>

\* generate_random_key: the call with its first pass (pc = "idle"), or a further pass
generate_random_key ==
    /\ \E key \in randint(block_size) : sampling_pass(key)
    /\ UNCHANGED <<block_size, keyfile, images, sidecar, caller>>

\* HillCipherGUI.generate_new_key: sets the block size of the shared instance to the
\* selected size, then calls generate_random_key
gui_generate_new_key(size) ==
    /\ pc = "idle"
    /\ block_size' = size
    /\ \E key \in randint(size) : sampling_pass(key)
    /\ UNCHANGED <<keyfile, images, sidecar, caller>>

save_key ==
    /\ pc = "idle"
    /\ IF key_matrix = None
       THEN /\ outcome' = Outcome("save_key", None, FALSE, NoExc, FALSE)
            /\ UNCHANGED keyfile
       ELSE /\ keyfile' = KeyRecord(key_matrix, block_size)
            /\ outcome' = Outcome("save_key", None, TRUE, NoExc, TRUE)
    /\ UNCHANGED <<block_size, key_matrix, inverse_key_matrix, pc, images, sidecar, caller>>

load_key ==
    /\ pc = "idle"
    /\ IF keyfile.kind # "record"
       THEN \* open or json.load raises: the bare except returns False
            /\ outcome' = Outcome("load_key", None, FALSE, "cannot read key file", FALSE)
            /\ UNCHANGED <<block_size, key_matrix, inverse_key_matrix>>
       ELSE LET f == set_key_matrix_fields(inverse_key_matrix, keyfile.key_matrix)
            IN  /\ block_size' = IF keyfile.has_block_size THEN keyfile.block_size ELSE 2
                /\ key_matrix' = f.key_matrix
                /\ inverse_key_matrix' = f.inverse_key_matrix
                /\ outcome' = Outcome("load_key", None, f.ret, f.msg, f.ret)
    /\ UNCHANGED <<pc, keyfile, images, sidecar, caller>>

-----------------------------------------------------------------------------
(* Image operations: encrypt_image, decrypt_image *)

\* a file whose writing was interrupted: Image.open / json.load cannot read it
CorruptImage == [exists |-> TRUE, mode |-> "corrupt", shape |-> <<>>, data |-> <<>>]
CorruptSidecar ==
    [exists |-> TRUE, original_shape |-> <<>>, image_mode |-> "corrupt", block_size |-> 0,
     key_matrix |-> None]

\* What a write of the operating system does to an operation: no fault; the image save
\* raises before or after it touched the file; the metadata write raises before or
\* after it touched the file.
IOFaults == {"none", "save", "save_partial", "metadata", "metadata_partial"}
SaveFaults == {"none", "save", "save_partial"}

\* the Python class of each exception raised inside the image operations
ExceptionClass(exc) ==
    CASE exc = "Key matrix not set" -> "ValueError"
      [] exc = "Inverse key matrix not calculated" -> "ValueError"
      [] exc = "shapes not aligned" -> "ValueError"
      [] exc = "cannot reshape array" -> "ValueError"
      [] exc = "fromarray: mode" -> "ValueError"
      [] exc = "too many indices for array" -> "IndexError"
      [] exc = "index out of bounds" -> "IndexError"
      [] exc = "No such file or directory" -> "FileNotFoundError"
      [] exc = "cannot identify image file" -> "UnidentifiedImageError"
      [] exc = "cannot write file" -> "OSError"
      [] exc = "Expecting value" -> "JSONDecodeError"

\* a handler that catches the errors of the cipher only
except_ValueError(exc) == ExceptionClass(exc) = "ValueError"

\* except Exception as e: each of these classes derives from Exception
except_Exception(exc) ==
    ExceptionClass(exc) \in {"ValueError", "IndexError", "FileNotFoundError",
                             "UnidentifiedImageError", "OSError", "JSONDecodeError"}

\* Image.open(path) followed by np.array(image)
open_image(image) ==
    IF ~image.exists THEN Raised("No such file or directory")
    ELSE IF image = CorruptImage THEN Raised("cannot identify image file")
    ELSE Returned(image)

\* a metadata record that leaves the key out
MetadataWithoutKey(original_shape, image_mode, bs, km) ==
    [exists |-> TRUE, original_shape |-> original_shape, image_mode |-> image_mode,
     block_size |-> bs, key_matrix |-> None]

\* the metadata dictionary of encrypt_image, as json.dump writes it
Metadata(original_shape, image_mode, bs, km) ==
    [exists |-> TRUE, original_shape |-> original_shape, image_mode |-> image_mode,
     block_size |-> bs, key_matrix |-> km]

\* What the two return statements of an image operation hand to the caller: exc is the
\* exception raised in the try block, or NoExc
image_outcome(op, arg, exc, prefix, success, ret) ==
    IF exc = NoExc THEN Outcome(op, arg, TRUE, success, ret)
    ELSE Outcome(op, arg, FALSE, prefix \o exc, None)

\* What encrypt_image computes from the file at image_path before it writes anything:
\* the ciphertext array, or the exception that the try block turns into (False, msg).
encrypt_array(image) ==
    LET opened == open_image(image) IN
    IF opened.exc # NoExc THEN opened
    ELSE LET a == transform_array(key_matrix, FALSE, block_size,
                                  image.shape, image.data, image.shape)
         IN  IF a.exc # NoExc THEN a
             ELSE IF ~ModeFits(image.mode, image.shape) THEN Raised("fromarray: mode")
             ELSE a

\* an operation that writes the metadata file first and the image after it
image_saved_last(io) == io = "none"

\* encrypted_image.save(output_path) precedes the writing of the metadata: the image
\* file is complete when there is no fault or the fault is met by the metadata write
image_saved(io) == io \in {"none", "metadata", "metadata_partial"}

\* encrypt_image(image_path, output_path); io is the fault its writes meet
encrypt_image(image_path, output_path, io) ==
    /\ pc = "idle"
    /\ LET image == images[image_path]
           a == encrypt_array(image)
           computed == a.exc = NoExc
           exc == IF ~computed THEN a.exc
                  ELSE IF io = "none" THEN NoExc
                  ELSE "cannot write file"
       IN  /\ images' =
                 IF computed /\ image_saved(io)
                 THEN [images EXCEPT
                          ![output_path] = ImageFile(image.mode, image.shape, a.val)]
                 ELSE IF computed /\ io = "save_partial"
                 THEN [images EXCEPT ![output_path] = CorruptImage]
                 ELSE images
           /\ sidecar' =
                 IF computed /\ io = "none"
                 THEN [sidecar EXCEPT
                          ![SidecarOf(encrypt_metadata_path(output_path))] =
                              Metadata(image.shape, image.mode, block_size, key_matrix)]
                 ELSE IF computed /\ io = "metadata_partial"
                 THEN [sidecar EXCEPT
                          ![SidecarOf(encrypt_metadata_path(output_path))] = CorruptSidecar]
                 ELSE sidecar
           /\ outcome' = image_outcome("encrypt_image", image_path, exc,
                                       "Encryption failed: ",
                                       "Image encrypted successfully!", key_matrix)
           /\ pc' = IF exc = NoExc \/ except_Exception(exc) THEN pc ELSE "crashed"
    /\ UNCHANGED <<block_size, key_matrix, inverse_key_matrix, keyfile, caller>>

\* a decryption that takes shape and mode from the ciphertext image in every case
reconstruction_from_image(image, metadata) ==
    [original_shape |-> image.shape, image_mode |-> image.mode]

\* a decryption that takes shape and mode from the metadata in every case
reconstruction_from_metadata(image, metadata) ==
    [original_shape |-> metadata.original_shape, image_mode |-> metadata.image_mode]

\* original_shape and image_mode of decrypt_image: from the metadata file when it
\* exists, else from the image
reconstruction(image, metadata) ==
    IF metadata.exists
    THEN [original_shape |-> metadata.original_shape, image_mode |-> metadata.image_mode]
    ELSE [original_shape |-> image.shape, image_mode |-> image.mode]

\* What decrypt_image computes before it writes: the output image.  The metadata file
\* is read first when it exists, then the image.
decrypt_array(image, metadata) ==
    LET opened == open_image(image) IN
    IF metadata = CorruptSidecar THEN Raised("Expecting value")
    ELSE IF opened.exc # NoExc THEN opened
    ELSE LET r == reconstruction(image, metadata)
             a == transform_array(inverse_key_matrix, TRUE, block_size,
                                  image.shape, image.data, r.original_shape)
         IN  IF a.exc # NoExc THEN a
             ELSE IF ~ModeFits(r.image_mode, r.original_shape)
                  THEN Raised("fromarray: mode")
             ELSE Returned(ImageFile(r.image_mode, r.original_shape, a.val))

\* decrypt_image(image_path, output_path) with metadata_path left to its default; io is
\* the fault its write meets
decrypt_image(image_path, output_path, io) ==
    /\ pc = "idle"
    /\ LET metadata_path == decrypt_metadata_path(image_path, NoPath)
           a == decrypt_array(images[image_path], sidecar[SidecarOf(metadata_path)])
           computed == a.exc = NoExc
           exc == IF ~computed THEN a.exc
                  ELSE IF io = "none" THEN NoExc
                  ELSE "cannot write file"
       IN  /\ images' =
                 IF computed /\ io = "none" THEN [images EXCEPT ![output_path] = a.val]
                 ELSE IF computed /\ io = "save_partial"
                 THEN [images EXCEPT ![output_path] = CorruptImage]
                 ELSE images
           /\ outcome' = image_outcome("decrypt_image", image_path, exc,
                                       "Decryption failed: ",
                                       "Image decrypted successfully!", None)
           /\ pc' = IF exc = NoExc \/ except_Exception(exc) THEN pc ELSE "crashed"
    /\ UNCHANGED <<block_size, key_matrix, inverse_key_matrix, keyfile, sidecar, caller>>

\* cipher = HillCipher(block_size=size): the script of a later run starts over with a
\* new instance, the files of the earlier runs are still on disk
new_instance(size) ==
    /\ pc = "idle"
    /\ LET self == Construct(None, size)
       IN  /\ block_size' = self.block_size
           /\ key_matrix' = self.key_matrix
           /\ inverse_key_matrix' = self.inverse_key_matrix
    /\ outcome' = Outcome("__init__", None, TRUE, NoExc, None)
    /\ UNCHANGED <<pc, keyfile, images, sidecar, caller>>

-----------------------------------------------------------------------------
(* The engine driven through its public operations *)

\* the instance after HillCipher(key_matrix, block_size)
Constructed(keys, sizes) ==
    /\ \E matrix \in {None} \cup keys, bs \in sizes :
          LET self == Construct(matrix, bs)
          IN  /\ block_size = self.block_size
              /\ key_matrix = self.key_matrix
              /\ inverse_key_matrix = self.inverse_key_matrix
              /\ outcome = Outcome("__init__", matrix, TRUE, NoExc, None)
    /\ pc = "idle"
    /\ caller = NoCaller

\* Key life cycle of one instance: construction, then any sequence of key operations
Init ==
    /\ Constructed(KeyPool, BlockSizes)
    /\ keyfile \in InitialKeyFiles
    /\ images = [p \in Paths |-> NoImage]
    /\ sidecar = [s \in Stems |-> NoSidecar]

Next ==
    \/ \E matrix \in KeyPool : set_key_matrix(matrix)
    \/ generate_random_key
    \/ \E size \in BlockSizes : gui_generate_new_key(size)
    \/ save_key
    \/ load_key

Spec == Init /\ [][Next]_vars

\* the samples of the random source that pass the test of generate_random_key, and the
\* inverse that set_key_matrix caches for each of them (tabulated once)
UnitSamples == {key \in KeyPool : SampleAccepted(key)}
InverseOf ==
    [key \in UnitSamples |-> set_key_matrix_fields(None, key).inverse_key_matrix]

\* A pass of the sampling loop of generate_random_key, already running, whose sample
\* passes the test: set_key_matrix(key), return key
accepted_sample ==
    /\ pc = "generating"
    /\ \E key \in randint(block_size) \cap UnitSamples :
          /\ key_matrix' = key
          /\ inverse_key_matrix' = InverseOf[key]
          /\ pc' = "idle"
          /\ outcome' = Outcome("generate_random_key", None, TRUE, NoExc, key)
    /\ UNCHANGED <<block_size, keyfile, images, sidecar, caller>>

\* The key life cycle under a fair random source: the loop of generate_random_key keeps
\* running, and np.random.randint does not withhold the unit-determinant samples for ever
SpecFair == Init /\ [][Next]_vars /\ WF_vars(accepted_sample)

\* Image processing by one instance: an input image on disk, keys set by the caller,
\* encryption to enc.png (with its metadata file) and decryption of enc.png to dec.png
InitImage ==
    /\ Constructed(ImageKeys, ImageBlockSizes)
    /\ keyfile = NoKeyFile
    /\ \E input \in ImagePool :
          images = [p \in Paths |-> IF p = "in.png" THEN input ELSE NoImage]
    /\ sidecar = [s \in Stems |-> NoSidecar]

NextImage ==
    \/ \E matrix \in ImageKeys : set_key_matrix(matrix)
    \/ \E size \in ImageBlockSizes : new_instance(size)
    \/ encrypt_image("in.png", "enc.png", "none")
    \/ decrypt_image("enc.png", "dec.png", "none")

SpecImage == InitImage /\ [][NextImage]_vars

\* Image processing on a disk whose writes can fail and that may hold the metadata file
\* of an earlier run: the operations of SpecImage with every fault of IOFaults
FaultKeys == {K2a, K3}
FaultBlockSizes == {2}
FaultImages ==
    { ImageFile("L", <<1, 5>>, <<1, 2, 3, 4, 5>>),
      ImageFile("L", <<2, 3>>, <<9, 8, 7, 250, 1, 0>>),
      ImageFile("RGB", <<1, 2, 3>>, <<10, 20, 30, 40, 50, 255>>) }

InitFaults ==
    /\ Constructed(FaultKeys, FaultBlockSizes)
    /\ keyfile = NoKeyFile
    /\ \E input \in FaultImages :
          images = [p \in Paths |-> IF p = "in.png" THEN input ELSE NoImage]
    /\ \E old \in InitialSidecars :
          sidecar = [s \in Stems |-> IF s = "enc" THEN old ELSE NoSidecar]

NextFaults ==
    \/ \E matrix \in FaultKeys : set_key_matrix(matrix)
    \/ \E size \in FaultBlockSizes : new_instance(size)
    \/ \E io \in IOFaults : encrypt_image("in.png", "enc.png", io)
    \/ \E io \in SaveFaults : decrypt_image("enc.png", "dec.png", io)

SpecFaults == InitFaults /\ [][NextFaults]_vars

-----------------------------------------------------------------------------
(* The block-level API driven by a script, as demo.py drives it: construct an instance *)
(* of block size N, set the key K, encrypt a block b to c, decrypt c to d.             *)

KeySizes == {2, 3, 4}

Entries2 == (0..MaxEntry) \cup {255}
\* every 2 x 2 matrix with entries in Entries2
Keys2 == {<<<<a, b>>, <<c, d>>>> : a \in Entries2, b \in Entries2,
                                   c \in Entries2, d \in Entries2}

K3d == <<<<255, 3, 17>>, <<4, 201, 9>>, <<81, 7, 102>>>>   \* determinant 4936607
\* every 3 x 3 matrix with entries in {0, 1}, and two matrices with large entries
Keys3 == [1..3 -> [1..3 -> {0, 1}]] \cup {K3, K3d}

\* 4 x 4 matrices: any first row over {0, 1, 255} above three fixed rows
Keys4 == {<<r, <<200, 1, 4, 0>>, <<0, 5, 255, 2>>, <<7, 0, 3, 129>>>> :
             r \in [1..4 -> {0, 1, 255}]}

TestKeys(n) == CASE n = 2 -> Keys2 [] n = 3 -> Keys3 [] n = 4 -> Keys4

BlockVals == (0..MaxVal) \cup ((255 - MaxVal)..255)
Blocks(n) == [1..n -> BlockVals]

InitBlock ==
    /\ \E n \in KeySizes :
          /\ block_size = n
          /\ \E K \in TestKeys(n) :
                caller = [stage |-> "start", K |-> K, b |-> <<>>, c |-> <<>>, d |-> <<>>]
    /\ key_matrix = None
    /\ inverse_key_matrix = None
    /\ outcome = Outcome("__init__", None, TRUE, NoExc, None)
    /\ pc = "idle"
    /\ keyfile = NoKeyFile
    /\ images = [p \in Paths |-> NoImage]
    /\ sidecar = [s \in Stems |-> NoSidecar]

\* cipher.set_key_matrix(K)
call_set_key_matrix ==
    /\ caller.stage = "start"
    /\ LET f == set_key_matrix_fields(inverse_key_matrix, caller.K)
       IN  /\ key_matrix' = f.key_matrix
           /\ inverse_key_matrix' = f.inverse_key_matrix
           /\ outcome' = Outcome("set_key_matrix", caller.K, f.ret, f.msg, f.ret)
           /\ caller' = [caller EXCEPT !.stage = IF f.ret THEN "keyed" ELSE "rejected"]
    /\ UNCHANGED <<block_size, pc, keyfile, images, sidecar>>

\* c = cipher.encrypt_block(b)
call_encrypt_block(b) ==
    /\ caller.stage = "keyed"
    /\ LET r == encrypt_block(key_matrix, b)
       IN  /\ outcome' = Outcome("encrypt_block", b, r.exc = NoExc, r.exc, r.val)
           /\ caller' = [caller EXCEPT !.stage = IF r.exc = NoExc THEN "encrypted"
                                                 ELSE "failed",
                                       !.b = b, !.c = r.val]
    /\ UNCHANGED <<block_size, key_matrix, inverse_key_matrix, pc, keyfile, images, sidecar>>

\* d = cipher.decrypt_block(c)
call_decrypt_block ==
    /\ caller.stage = "encrypted"
    /\ LET r == decrypt_block(inverse_key_matrix, caller.c)
       IN  /\ outcome' = Outcome("decrypt_block", caller.c, r.exc = NoExc, r.exc, r.val)
           /\ caller' = [caller EXCEPT !.stage = IF r.exc = NoExc THEN "decrypted"
                                                 ELSE "failed",
                                       !.d = r.val]
    /\ UNCHANGED <<block_size, key_matrix, inverse_key_matrix, pc, keyfile, images, sidecar>>

NextBlock ==
    \/ call_set_key_matrix
    \/ \E b \in Blocks(block_size) : call_encrypt_block(b)
    \/ call_decrypt_block

SpecBlock == InitBlock /\ [][NextBlock]_vars

-----------------------------------------------------------------------------
(* Two instances in one process, as in demo.py (cipher, new_cipher) and in the GUI     *)
(* (self.cipher, temp_cipher).  The instance variables hold the fields of cipher, the  *)
(* script's local new_cipher holds the fields of the other instance; both use the same *)
(* key file and the same image files.                                                  *)

InstanceNames == {"cipher", "new_cipher"}
InstanceKeys == {K2a, K3}
InstanceBlockSizes == {2, 3}

Fields(bs, km, ikm) == [block_size |-> bs, key_matrix |-> km, inverse_key_matrix |-> ikm]

\* the instances of the process and their fields
Instances ==
    [cipher |-> Fields(block_size, key_matrix, inverse_key_matrix),
     new_cipher |-> caller.new_cipher]

\* attributes kept on the class: an assignment through one instance is seen by all
store_class(instances, name, fields) == [n \in InstanceNames |-> fields]

\* self.block_size = ..., self.key_matrix = ..., self.inverse_key_matrix = ...: the
\* attributes are those of the instance the method was called on
store_self(instances, name, fields) == [instances EXCEPT ![name] = fields]

\* the body of set_key_matrix on the fields of self
set_key_matrix_self(self, matrix) ==
    LET f == set_key_matrix_fields(self.inverse_key_matrix, matrix)
    IN  [fields |-> Fields(self.block_size, f.key_matrix, f.inverse_key_matrix),
         ret |-> f.ret, msg |-> f.msg]

\* the body of load_key on the fields of self
load_key_self(self, file) ==
    IF file.kind # "record"
    THEN [fields |-> self, ret |-> FALSE, msg |-> "cannot read key file"]
    ELSE LET f == set_key_matrix_fields(self.inverse_key_matrix, file.key_matrix)
         IN  [fields |-> Fields(IF file.has_block_size THEN file.block_size ELSE 2,
                                f.key_matrix, f.inverse_key_matrix),
              ret |-> f.ret, msg |-> f.msg]

\* a method call on the instance `name` has returned `result`
instance_returns(op, name, result) ==
    LET after == store_self(Instances, name, result.fields)
    IN  /\ block_size' = after.cipher.block_size
        /\ key_matrix' = after.cipher.key_matrix
        /\ inverse_key_matrix' = after.cipher.inverse_key_matrix
        /\ caller' = [caller EXCEPT !.new_cipher = after.new_cipher]
        /\ outcome' = Outcome(op, name, result.ret, result.msg, result.ret)

instance_set_key_matrix(name, matrix) ==
    /\ instance_returns("set_key_matrix", name,
                        set_key_matrix_self(Instances[name], matrix))
    /\ UNCHANGED <<pc, keyfile, images, sidecar>>

\* generate_random_key, from the call to the return of the accepted sample
instance_generate_random_key(name) ==
    /\ \E key \in randint(Instances[name].block_size) :
          /\ SampleAccepted(key)
          /\ instance_returns("generate_random_key", name,
                              set_key_matrix_self(Instances[name], key))
    /\ UNCHANGED <<pc, keyfile, images, sidecar>>

instance_save_key(name) ==
    /\ IF Instances[name].key_matrix = None
       THEN /\ outcome' = Outcome("save_key", name, FALSE, NoExc, FALSE)
            /\ UNCHANGED keyfile
       ELSE /\ keyfile' = KeyRecord(Instances[name].key_matrix, Instances[name].block_size)
            /\ outcome' = Outcome("save_key", name, TRUE, NoExc, TRUE)
    /\ UNCHANGED <<block_size, key_matrix, inverse_key_matrix, pc, images, sidecar, caller>>

instance_load_key(name) ==
    /\ instance_returns("load_key", name, load_key_self(Instances[name], keyfile))
    /\ UNCHANGED <<pc, keyfile, images, sidecar>>

InitInstances ==
    /\ \E m1 \in {None} \cup InstanceKeys, bs1 \in InstanceBlockSizes,
          m2 \in {None} \cup InstanceKeys, bs2 \in InstanceBlockSizes :
          LET c1 == Construct(m1, bs1)
              c2 == Construct(m2, bs2)
          IN  /\ block_size = c1.block_size
              /\ key_matrix = c1.key_matrix
              /\ inverse_key_matrix = c1.inverse_key_matrix
              /\ caller = [stage |-> "two instances", new_cipher |-> c2]
    /\ outcome = Outcome("__init__", "new_cipher", TRUE, NoExc, None)
    /\ pc = "idle"
    /\ keyfile = NoKeyFile
    /\ images = [p \in Paths |->
                    IF p = "in.png" THEN ImageFile("L", <<2, 2>>, <<0, 255, 17, 128>>)
                    ELSE NoImage]
    /\ sidecar = [s \in Stems |-> NoSidecar]

NextInstances ==
    \/ \E name \in InstanceNames, matrix \in InstanceKeys :
          instance_set_key_matrix(name, matrix)
    \/ \E name \in InstanceNames : instance_generate_random_key(name)
    \/ \E name \in InstanceNames : instance_save_key(name)
    \/ \E name \in InstanceNames : instance_load_key(name)
    \/ encrypt_image("in.png", "enc.png", "none")
    \/ decrypt_image("enc.png", "dec.png", "none")

SpecInstances == InitInstances /\ [][NextInstances]_vars

-----------------------------------------------------------------------------
(* The determinant of key validation and inversion, computed on its own: a script calls *)
(* det = int(np.round(np.linalg.det(K))) % 256 as generate_random_key and              *)
(* matrix_inverse_mod do, for the keys of the block-level driver.                      *)

InitDet ==
    /\ \E n \in KeySizes :
          /\ block_size = n
          /\ \E K \in TestKeys(n) :
                caller = [stage |-> "start", K |-> K, raw |-> Float(0, 0), det |-> 0]
    /\ key_matrix = None
    /\ inverse_key_matrix = None
    /\ outcome = Outcome("__init__", None, TRUE, NoExc, None)
    /\ pc = "idle"
    /\ keyfile = NoKeyFile
    /\ images = [p \in Paths |-> NoImage]
    /\ sidecar = [s \in Stems |-> NoSidecar]

\* raw = np.linalg.det(K)
call_linalg_det(err) ==
    /\ caller.stage = "start"
    /\ caller' = [caller EXCEPT !.stage = "float", !.raw = np_linalg_det(caller.K, err)]
    /\ outcome' = Outcome("np.linalg.det", caller.K, TRUE, NoExc, None)
    /\ UNCHANGED <<block_size, key_matrix, inverse_key_matrix, pc, keyfile, images, sidecar>>

\* det = int(np.round(raw)) % 256
call_round_mod ==
    /\ caller.stage = "float"
    /\ caller' = [caller EXCEPT !.stage = "det", !.det = np_round(caller.raw) % Modulus]
    /\ outcome' = Outcome("np.round", caller.K, TRUE, NoExc, None)
    /\ UNCHANGED <<block_size, key_matrix, inverse_key_matrix, pc, keyfile, images, sidecar>>

NextDet ==
    \/ \E err \in FloatErrors : call_linalg_det(err)
    \/ call_round_mod

SpecDet == InitDet /\ [][NextDet]_vars

-----------------------------------------------------------------------------
(* pad_data called on its own: a script constructs HillCipher(block_size=B) and pads a *)
(* flattened channel.                                                                  *)

PadVals == {0, 7, 255}
PadBlockSizes == 1..MaxPadBlock

RECURSIVE SeqsUpTo(_, _)
\* every sequence over vals of length 0..n
SeqsUpTo(vals, n) ==
    IF n = 0 THEN {<<>>}
    ELSE LET shorter == SeqsUpTo(vals, n - 1)
         IN  shorter \cup {Append(q, v) : q \in shorter, v \in vals}

InitPad ==
    /\ block_size \in PadBlockSizes
    /\ \E data \in SeqsUpTo(PadVals, MaxLen) :
          caller = [stage |-> "start", data |-> data, padded |-> <<>>]
    /\ key_matrix = None
    /\ inverse_key_matrix = None
    /\ outcome = Outcome("__init__", None, TRUE, NoExc, None)
    /\ pc = "idle"
    /\ keyfile = NoKeyFile
    /\ images = [p \in Paths |-> NoImage]
    /\ sidecar = [s \in Stems |-> NoSidecar]

\* padded = cipher.pad_data(data)
call_pad_data ==
    /\ caller.stage = "start"
    /\ caller' = [caller EXCEPT !.stage = "padded",
                                !.padded = pad_data(caller.data, block_size)]
    /\ outcome' = Outcome("pad_data", caller.data, TRUE, NoExc, None)
    /\ UNCHANGED <<block_size, key_matrix, inverse_key_matrix, pc, keyfile, images, sidecar>>

SpecPad == InitPad /\ [][call_pad_data]_vars

-----------------------------------------------------------------------------
(* gcd and mod_inverse called on their own, as demo.py calls them: g = cipher.gcd(a, m) *)
(* runs its loop pass by pass, then inv = cipher.mod_inverse(a, m).                     *)

AlgebraInputs ==
    ((0..MaxArg) \X (0..MaxMod))
        \cup ((0..(Modulus + MaxOver)) \X {Modulus})
        \cup {<<48, 18>>, <<7, 26>>}

NotCalled == [exc |-> "not called", val |-> None]

InitAlgebra ==
    /\ \E in \in AlgebraInputs :
          caller = [stage |-> "start", a |-> in[1], m |-> in[2], x |-> 0, y |-> 0,
                    g |-> 0, inv |-> NotCalled]
    /\ block_size = 2
    /\ key_matrix = None
    /\ inverse_key_matrix = None
    /\ outcome = Outcome("__init__", None, TRUE, NoExc, None)
    /\ pc = "idle"
    /\ keyfile = NoKeyFile
    /\ images = [p \in Paths |-> NoImage]
    /\ sidecar = [s \in Stems |-> NoSidecar]

\* cipher.gcd(a, m) is entered: its parameters are a and m
call_gcd ==
    /\ caller.stage = "start"
    /\ caller' = [caller EXCEPT !.stage = "gcd_loop", !.x = caller.a, !.y = caller.m]
    /\ outcome' = Outcome("gcd", <<caller.a, caller.m>>, FALSE, "running", None)
    /\ UNCHANGED <<block_size, key_matrix, inverse_key_matrix, pc, keyfile, images, sidecar>>

\* while b: a, b = b, a % b
gcd_iteration ==
    /\ caller.stage = "gcd_loop"
    /\ caller.y # 0
    /\ LET next == gcd_step(caller.x, caller.y)
       IN  caller' = [caller EXCEPT !.x = next[1], !.y = next[2]]
    /\ UNCHANGED <<block_size, key_matrix, inverse_key_matrix, pc, keyfile, images, sidecar,
                   outcome>>

\* the loop ends with b = 0: return a
gcd_return ==
    /\ caller.stage = "gcd_loop"
    /\ caller.y = 0
    /\ caller' = [caller EXCEPT !.stage = "gcd_done", !.g = caller.x]
    /\ outcome' = Outcome("gcd", <<caller.a, caller.m>>, TRUE, NoExc, caller.x)
    /\ UNCHANGED <<block_size, key_matrix, inverse_key_matrix, pc, keyfile, images, sidecar>>

\* inv = cipher.mod_inverse(a, m) inside try / except
call_mod_inverse ==
    /\ caller.stage = "gcd_done"
    /\ LET r == mod_inverse(caller.a, caller.m)
       IN  /\ caller' = [caller EXCEPT !.stage = "inverse_done", !.inv = r]
           /\ outcome' = Outcome("mod_inverse", <<caller.a, caller.m>>, r.exc = NoExc,
                                 r.exc, r.val)
    /\ UNCHANGED <<block_size, key_matrix, inverse_key_matrix, pc, keyfile, images, sidecar>>

NextAlgebra ==
    \/ call_gcd
    \/ gcd_iteration
    \/ gcd_return
    \/ call_mod_inverse

SpecAlgebra == InitAlgebra /\ [][NextAlgebra]_vars

\* the same calls in an interpreter that keeps executing a loop it has entered
SpecAlgebraFair ==
    InitAlgebra /\ [][NextAlgebra]_vars /\ WF_vars(gcd_iteration) /\ WF_vars(gcd_return)

-----------------------------------------------------------------------------
(* The GUI (src/gui_application.py): one shared instance self.cipher = HillCipher().   *)
(* The handlers of the key tab run on the main thread, one at a time; encrypt_image    *)
(* starts encrypt_thread, which runs HillCipher.encrypt_image on the shared instance   *)
(* while the main thread keeps serving handlers.  No lock is taken and no widget is    *)
(* disabled.  The thread is modelled on a grayscale image, statement by statement      *)
(* where it reads the fields of the instance; `caller` holds the locals of the thread. *)

GuiBlockSizes == {2, 3}
GuiImages ==
    { ImageFile("L", <<1, 4>>, <<1, 2, 3, 4>>),
      ImageFile("L", <<1, 5>>, <<1, 2, 3, 4, 5>>) }

NoThread ==
    [stage |-> "not started", flat |-> <<>>, step |-> 0, i |-> 0, out |-> <<>>,
     used |-> <<>>, ok |-> FALSE]

InitGui ==
    /\ LET self == Construct(None, 2)
       IN  /\ block_size = self.block_size
           /\ key_matrix = self.key_matrix
           /\ inverse_key_matrix = self.inverse_key_matrix
    /\ outcome = Outcome("__init__", None, TRUE, NoExc, None)
    /\ pc = "idle"
    /\ caller = NoThread
    /\ keyfile = KeyRecord(K2b, 2)
    /\ \E input \in GuiImages :
          images = [p \in Paths |-> IF p = "in.png" THEN input ELSE NoImage]
    /\ sidecar = [s \in Stems |-> NoSidecar]

\* a further pass of the sampling loop that HillCipherGUI.generate_new_key is running
gui_sampling_continues ==
    /\ pc = "generating"
    /\ generate_random_key

\* manual_key_entry.apply_key with the selected size and the values typed in: a matrix
\* whose determinant is not a unit is answered with a dialog, any other is set
gui_apply_key(size, matrix) ==
    /\ pc = "idle"
    /\ Rows(matrix) = size
    /\ Cols(matrix) = size
    /\ IF gcd(Determinant(matrix) % Modulus, Modulus) # 1
       THEN /\ outcome' = Outcome("apply_key", matrix, FALSE, "Invalid Matrix", None)
            /\ UNCHANGED <<key_matrix, inverse_key_matrix>>
       ELSE LET f == set_key_matrix_fields(inverse_key_matrix, matrix)
            IN  /\ key_matrix' = f.key_matrix
                /\ inverse_key_matrix' = f.inverse_key_matrix
                /\ outcome' = Outcome("apply_key", matrix, f.ret, f.msg, f.ret)
    /\ UNCHANGED <<block_size, pc, keyfile, images, sidecar, caller>>

\* HillCipherGUI.encrypt_image: without a key a warning, else the thread is started
gui_encrypt_image ==
    /\ pc = "idle"
    /\ caller.stage = "not started"
    /\ IF key_matrix = None
       THEN /\ outcome' = Outcome("gui_encrypt_image", None, FALSE,
                                  "Please generate or load a key first!", None)
            /\ UNCHANGED caller
       ELSE /\ outcome' = Outcome("gui_encrypt_image", None, TRUE, NoExc, None)
            /\ caller' = [caller EXCEPT !.stage = "started"]
    /\ UNCHANGED <<block_size, key_matrix, inverse_key_matrix, pc, keyfile, images, sidecar>>

\* the thread leaves encrypt_image through its except branch
thread_fails(exc) ==
    /\ caller' = [caller EXCEPT !.stage = "returned", !.ok = FALSE]
    /\ outcome' = image_outcome("encrypt_image", "in.png", exc, "Encryption failed: ",
                                "Image encrypted successfully!", None)

\* image = Image.open(image_path) ... flat_data = image_array.flatten()
thread_load ==
    /\ caller.stage = "started"
    /\ LET opened == open_image(images["in.png"])
       IN  IF opened.exc # NoExc THEN thread_fails(opened.exc)
           ELSE /\ caller' = [caller EXCEPT !.stage = "loaded", !.flat = opened.val.data]
                /\ UNCHANGED outcome
    /\ UNCHANGED <<block_size, key_matrix, inverse_key_matrix, pc, keyfile, images, sidecar>>

\* flat_data = self.pad_data(flat_data); range(0, len(flat_data), self.block_size)
thread_pad ==
    /\ caller.stage = "loaded"
    /\ caller' = [caller EXCEPT !.stage = "looping",
                                !.flat = pad_data(caller.flat, block_size),
                                !.step = block_size,
                                !.i = 0]
    /\ UNCHANGED <<block_size, key_matrix, inverse_key_matrix, pc, keyfile, images, sidecar,
                   outcome>>

\* one pass of the loop: block = flat_data[i:i+self.block_size];
\* encrypted_data.extend(self.encrypt_block(block))
thread_block ==
    /\ caller.stage = "looping"
    /\ caller.i < Len(caller.flat)
    /\ LET block == SubSeq(caller.flat, caller.i + 1,
                           Min(caller.i + block_size, Len(caller.flat)))
           r == encrypt_block(key_matrix, block)
       IN  IF r.exc # NoExc THEN thread_fails(r.exc)
           ELSE /\ caller' = [caller EXCEPT
                                 !.out = caller.out \o r.val,
                                 !.i = caller.i + caller.step,
                                 !.used = Append(caller.used,
                                                 [key_matrix |-> key_matrix,
                                                  block_size |-> block_size])]
                /\ UNCHANGED outcome
    /\ UNCHANGED <<block_size, key_matrix, inverse_key_matrix, pc, keyfile, images, sidecar>>

\* the loop is over: truncate, reshape, Image.fromarray, save
thread_save ==
    /\ caller.stage = "looping"
    /\ caller.i >= Len(caller.flat)
    /\ LET image == images["in.png"]
           a == TruncateReshape(caller.out, image.shape)
       IN  IF a.exc # NoExc
           THEN thread_fails(a.exc) /\ UNCHANGED images
           ELSE /\ images' = [images EXCEPT
                                 !["enc.png"] = ImageFile(image.mode, image.shape, a.val)]
                /\ caller' = [caller EXCEPT !.stage = "saved"]
                /\ UNCHANGED outcome
    /\ UNCHANGED <<block_size, key_matrix, inverse_key_matrix, pc, keyfile, sidecar>>

\* metadata = {..., 'block_size': self.block_size, 'key_matrix': self.key_matrix.tolist()};
\* json.dump; return True, "Image encrypted successfully!"
thread_metadata ==
    /\ caller.stage = "saved"
    /\ LET image == images["in.png"]
       IN  sidecar' = [sidecar EXCEPT
                         !["enc"] = Metadata(image.shape, image.mode, block_size,
                                             key_matrix)]
    /\ caller' = [caller EXCEPT !.stage = "returned", !.ok = TRUE]
    /\ outcome' = image_outcome("encrypt_image", "in.png", NoExc, "Encryption failed: ",
                                "Image encrypted successfully!", key_matrix)
    /\ UNCHANGED <<block_size, key_matrix, inverse_key_matrix, pc, keyfile, images>>

encrypt_thread ==
    \/ thread_load
    \/ thread_pad
    \/ thread_block
    \/ thread_save
    \/ thread_metadata

NextGui ==
    \/ \E size \in GuiBlockSizes : gui_generate_new_key(size)
    \/ gui_sampling_continues
    \/ load_key
    \/ \E size \in GuiBlockSizes : \E matrix \in randint(size) : gui_apply_key(size, matrix)
    \/ gui_encrypt_image
    \/ encrypt_thread

SpecGui == InitGui /\ [][NextGui]_vars

-----------------------------------------------------------------------------
(* Command-line mode (src/main.py): python main.py --cli <operation> <input> <output>  *)
(* <key file>.  Each run of run_cli constructs its own HillCipher(); the key file and  *)
(* the image files stay on disk between the runs.  An encrypt run reads in.png and     *)
(* writes enc.png, a decrypt run reads enc.png and writes dec.png.  `caller` is the    *)
(* process: in the shell between two runs, or inside run_cli with its operation.       *)

Operations == {"encrypt", "decrypt"}

CliKeyFiles ==
    {NoKeyFile, MalformedKeyFile, KeyRecord(K2a, 2), KeyRecord(S2, 2), KeyRecordNoSize(K3)}
CliImages ==
    { NoImage,
      ImageFile("L", <<1, 5>>, <<1, 2, 3, 4, 5>>),
      ImageFile("RGB", <<1, 2, 3>>, <<10, 20, 30, 40, 50, 255>>) }

input_file(operation) == IF operation = "encrypt" THEN "in.png" ELSE "enc.png"
output_file(operation) == IF operation = "encrypt" THEN "enc.png" ELSE "dec.png"

InShell == [stage |-> "shell", operation |-> "none"]
InCli(operation) == [stage |-> "cli", operation |-> operation]

\* an exit code that does not depend on the outcome
exit_code_zero(success) == 0

\* if success: return 0  else: return 1
exit_code(success) == IF success THEN 0 ELSE 1

\* run_cli returns code: the process is back in the shell; the outcome keeps what the
\* last engine operation of the run had returned
cli_returns(code, msg) ==
    /\ caller' = InShell
    /\ outcome' = Outcome("run_cli", outcome, code = 0, msg, code)

InitCli ==
    /\ LET self == Construct(None, 2)
       IN  /\ block_size = self.block_size
           /\ key_matrix = self.key_matrix
           /\ inverse_key_matrix = self.inverse_key_matrix
    /\ outcome = Outcome("__init__", None, TRUE, NoExc, None)
    /\ pc = "idle"
    /\ caller = InShell
    /\ keyfile \in CliKeyFiles
    /\ \E input \in CliImages :
          images = [p \in Paths |-> IF p = "in.png" THEN input ELSE NoImage]
    /\ sidecar = [s \in Stems |-> NoSidecar]

\* run_cli is entered: the input file is looked for, then cipher = HillCipher()
cli_begin(operation) ==
    /\ caller.stage = "shell"
    /\ pc = "idle"
    /\ IF ~images[input_file(operation)].exists
       THEN /\ caller' = InShell
            /\ outcome' = Outcome("run_cli", Outcome("os.path.exists", None, FALSE,
                                                     NoExc, FALSE),
                                  FALSE, "Input file not found", 1)
            /\ UNCHANGED <<block_size, key_matrix, inverse_key_matrix>>
       ELSE LET self == Construct(None, 2)
            IN  /\ block_size' = self.block_size
                /\ key_matrix' = self.key_matrix
                /\ inverse_key_matrix' = self.inverse_key_matrix
                /\ caller' = InCli(operation)
                /\ outcome' = Outcome("__init__", None, TRUE, NoExc, None)
    /\ UNCHANGED <<pc, keyfile, images, sidecar>>

\* the key file exists: cipher.load_key(key_file)
cli_load_key ==
    /\ caller.stage = "cli"
    /\ outcome.op = "__init__"
    /\ keyfile.kind # "missing"
    /\ load_key

\* load_key has returned False: return 1
cli_load_failed ==
    /\ caller.stage = "cli"
    /\ outcome.op = "load_key"
    /\ ~outcome.ok
    /\ cli_returns(1, "Failed to load key")
    /\ UNCHANGED <<block_size, key_matrix, inverse_key_matrix, pc, keyfile, images, sidecar>>

\* decrypt without a key file: return 1
cli_key_file_missing ==
    /\ caller.stage = "cli"
    /\ caller.operation = "decrypt"
    /\ outcome.op = "__init__"
    /\ keyfile.kind = "missing"
    /\ cli_returns(1, "Key file not found")
    /\ UNCHANGED <<block_size, key_matrix, inverse_key_matrix, pc, keyfile, images, sidecar>>

\* encrypt without a key file: cipher.generate_random_key(), pass by pass
cli_generate_key ==
    /\ caller.stage = "cli"
    /\ caller.operation = "encrypt"
    /\ keyfile.kind = "missing"
    /\ outcome.op = "__init__" \/ pc = "generating"
    /\ generate_random_key

\* cipher.save_key(key_file) of the new key; a failure is answered with a warning
cli_save_key(io) ==
    /\ caller.stage = "cli"
    /\ outcome.op = "generate_random_key"
    /\ outcome.ok
    /\ IF io = "none" THEN save_key
       ELSE /\ pc = "idle"
            /\ outcome' = Outcome("save_key", None, FALSE, "cannot write file", FALSE)
            /\ UNCHANGED <<block_size, key_matrix, inverse_key_matrix, pc, keyfile, images,
                           sidecar, caller>>

\* the statements of run_cli before the image operation have been passed: the key was
\* loaded, or it was generated and save_key has returned
key_step_done ==
    \/ outcome.op = "load_key" /\ outcome.ok
    \/ outcome.op = "save_key"

\* success, message = cipher.encrypt_image(input_file, output_file)
cli_encrypt_image(io) ==
    /\ caller.stage = "cli"
    /\ caller.operation = "encrypt"
    /\ key_step_done
    /\ encrypt_image(input_file("encrypt"), output_file("encrypt"), io)

\* success, message = cipher.decrypt_image(input_file, output_file)
cli_decrypt_image(io) ==
    /\ caller.stage = "cli"
    /\ caller.operation = "decrypt"
    /\ key_step_done
    /\ decrypt_image(input_file("decrypt"), output_file("decrypt"), io)

\* if success: return 0 else: return 1
cli_report ==
    /\ caller.stage = "cli"
    /\ outcome.op \in {"encrypt_image", "decrypt_image"}
    /\ cli_returns(exit_code(outcome.ok), outcome.msg)
    /\ UNCHANGED <<block_size, key_matrix, inverse_key_matrix, pc, keyfile, images, sidecar>>

NextCli ==
    \/ \E operation \in Operations : cli_begin(operation)
    \/ cli_load_key
    \/ cli_load_failed
    \/ cli_key_file_missing
    \/ cli_generate_key
    \/ \E io \in {"none", "save"} : cli_save_key(io)
    \/ \E io \in IOFaults : cli_encrypt_image(io)
    \/ \E io \in SaveFaults : cli_decrypt_image(io)
    \/ cli_report

SpecCli == InitCli /\ [][NextCli]_vars

-----------------------------------------------------------------------------
(* Properties *)

\* every entry of the matrix is an 8-bit value
EntriesInRange(m) ==
    \A i \in 1..Rows(m) : \A j \in 1..Cols(m) : m[i][j] \in 0..(Modulus - 1)

\* inv * k is the identity matrix modulo 256
IsInverseMod(inv, k) ==
    /\ IsSquare(k)
    /\ Rows(inv) = Rows(k)
    /\ Cols(inv) = Cols(k)
    /\ MatMulMod(inv, k, Modulus) = Identity(Rows(k))

\* C2: block round trip.  For N in {2,3,4}, a key accepted by set_key_matrix and a block
\* b of N values in [0,255], decrypt_block(encrypt_block(b)) is b: a driver that has
\* set the key, encrypted b and decrypted the result holds d = b.
C2_BlockRoundTrip ==
    /\ caller.stage \in {"encrypted", "decrypted"} =>
          /\ Len(caller.c) = block_size
          /\ \A i \in 1..Len(caller.c) : caller.c[i] \in 0..255
    /\ caller.stage = "decrypted" => caller.d = caller.b
    /\ caller.stage # "failed"

\* a 4 x 4 key and a block that encryption changes have gone through the round trip
C2_Witness ==
    /\ caller.stage = "decrypted"
    /\ block_size = 4
    /\ caller.c # caller.b
    /\ caller.d = caller.b

\* C4: for a square matrix K with entries in [0,255] whose determinant mod 256 is
\* coprime with 256, matrix_inverse_mod(K, 256) exists, its product with K is the
\* identity modulo 256, and its entries lie in [0,256).
C4_InverseTimesKeyIsIdentity ==
    (caller.stage # "start" /\ caller.stage # "none" /\ Invertible(caller.K)) =>
        /\ caller.stage # "rejected"
        /\ outcome.op = "set_key_matrix" => outcome.ok
        /\ EntriesInRange(inverse_key_matrix)
        /\ IsInverseMod(inverse_key_matrix, caller.K)

\* a 3 x 3 key with large entries has been set and inverted
C4_Witness ==
    /\ caller.stage = "keyed"
    /\ caller.K = K3d
    /\ IsInverseMod(inverse_key_matrix, K3d)
    /\ inverse_key_matrix # K3d


\* enc.png and its metadata file were written by encrypt_image under the key and block
\* size the instance holds now, and that key is a valid one with its inverse cached
HoldsEncryptionKey ==
    /\ images["enc.png"].exists
    /\ sidecar["enc"].exists
    /\ sidecar["enc"].key_matrix = key_matrix
    /\ sidecar["enc"].block_size = block_size
    /\ Invertible(key_matrix)
    /\ IsInverseMod(inverse_key_matrix, key_matrix)

\* number of values of one channel of an image
ChannelLength(image) == image.shape[1] * image.shape[2]

\* C1: image round trip.  For every 8-bit pixel array (grayscale or multi-channel, of
\* any size) and every valid key, decrypt_image applied to the output of encrypt_image
\* under the same key reproduces the input image exactly.
C1_ImageRoundTrip ==
    (outcome.op = "decrypt_image" /\ outcome.ok /\ HoldsEncryptionKey) =>
        images["dec.png"] = images["in.png"]

\* C3: padding correctness.  When the channel length L is not a multiple of the block
\* size, the channel reconstructed by encrypt then decrypt has length L and each of its
\* L values, those of the final partial block included, equals the original.
C3_PaddingRoundTrip ==
    (/\ outcome.op = "decrypt_image"
     /\ outcome.ok
     /\ HoldsEncryptionKey
     /\ ChannelLength(images["in.png"]) % block_size # 0) =>
        /\ images["dec.png"].shape = images["in.png"].shape
        /\ Len(images["dec.png"].data) = Len(images["in.png"].data)
        /\ \A n \in 1..Len(images["in.png"].data) :
              images["dec.png"].data[n] = images["in.png"].data[n]

\* C5: key invariant.  After any sequence of constructor, set_key_matrix,
\* generate_random_key and load_key calls, a key matrix held by the instance is square
\* with gcd(det(K) mod 256, 256) = 1.
C5_KeyInvariant ==
    key_matrix # None => Invertible(key_matrix)

\* C6: setting a key is atomic.  Whenever key_matrix and inverse_key_matrix are both
\* set, inverse_key_matrix is the inverse modulo 256 of that key_matrix.
C6_InverseBelongsToKey ==
    (key_matrix # None /\ inverse_key_matrix # None) =>
        IsInverseMod(inverse_key_matrix, key_matrix)

\* C7: key validity is never deferred to encryption time.  encrypt_image never reports
\* success for (never transforms blocks with) a matrix that is not invertible mod 256.
C7_EncryptOnlyWithValidKey ==
    (outcome.op = "encrypt_image" /\ outcome.ok) =>
        /\ Invertible(key_matrix)
        /\ Invertible(sidecar["enc"].key_matrix)

\* C8: invalid-key rejection.  set_key_matrix answers every square matrix whose
\* determinant mod 256 is not coprime with 256 with the failure outcome, and the failure
\* is the one raised by the modular inversion (mod_inverse inside matrix_inverse_mod).
C8_SingularKeyRejected ==
    (/\ outcome.op = "set_key_matrix"
     /\ IsSquare(outcome.arg)
     /\ gcd(Determinant(outcome.arg) % Modulus, Modulus) # 1) =>
        /\ outcome.ok = FALSE
        /\ outcome.ret = FALSE
        /\ outcome.msg = "Modular inverse does not exist"

\* set_key_matrix([[2,4],[1,2]]) has returned
C8_Witness ==
    /\ outcome.op = "set_key_matrix"
    /\ outcome.arg = S2
    /\ outcome.ok = FALSE

\* C9: set_key_matrix validates squareness.  A matrix that is not square is answered
\* with the failure outcome and is not accepted as the key of the instance.
C9_NonSquareKeyNotAccepted ==
    (outcome.op = "set_key_matrix" /\ ~IsSquare(outcome.arg)) =>
        /\ outcome.ok = FALSE
        /\ key_matrix # outcome.arg

\* C10: generate_random_key never returns a matrix that fails set-key validation.  The
\* matrix returned is block_size x block_size with entries in [0,255] and a determinant
\* coprime with 256, set_key_matrix accepts it, and on return the instance holds it
\* together with its inverse modulo 256.
C10_GeneratedKeyIsValid ==
    (outcome.op = "generate_random_key" /\ outcome.ok) =>
        /\ pc = "idle"
        /\ Rows(outcome.ret) = block_size
        /\ Cols(outcome.ret) = block_size
        /\ EntriesInRange(outcome.ret)
        /\ Invertible(outcome.ret)
        /\ set_key_matrix_fields(None, outcome.ret).ret
        /\ key_matrix = outcome.ret
        /\ IsInverseMod(inverse_key_matrix, outcome.ret)

\* generate_random_key has returned a 3 x 3 key, held with its inverse
C10_Witness ==
    /\ outcome.op = "generate_random_key"
    /\ outcome.ok
    /\ block_size = 3
    /\ key_matrix = K3
    /\ IsInverseMod(inverse_key_matrix, K3)

\* the key file is a record written by save_key: only save_key writes the block size
WrittenBySaveKey == keyfile.kind = "record" /\ keyfile.has_block_size

\* C11: key persistence round trip.  For every instance holding a key, save_key
\* followed by load_key of the same file on any instance yields the same key matrix
\* values and the same block size, and load_key reports success.
C11_KeyPersistenceRoundTrip ==
    (outcome.op = "load_key" /\ WrittenBySaveKey) =>
        /\ key_matrix = keyfile.key_matrix
        /\ block_size = keyfile.block_size
        /\ outcome.ok
        /\ outcome.ret = TRUE

\* C12: encrypt_image and decrypt_image never propagate an exception to the caller.
\* Every failure inside them (no key set, unreadable input, block/key shape mismatch,
\* write failure) is returned as (False, message) and success as (True, message): the
\* caller is never left at a raised exception, and the outcome is False with a failure
\* message or True with the success message.
C12_NoExceptionPropagates ==
    /\ pc # "crashed"
    /\ outcome.op = "encrypt_image" =>
          /\ outcome.ok \in BOOLEAN
          /\ outcome.ok <=> outcome.msg = "Image encrypted successfully!"
          /\ outcome.msg # NoExc
    /\ outcome.op = "decrypt_image" =>
          /\ outcome.ok \in BOOLEAN
          /\ outcome.ok <=> outcome.msg = "Image decrypted successfully!"
          /\ outcome.msg # NoExc

\* decrypt_image has answered a ciphertext file it cannot read, left behind by a failed
\* write of encrypt_image, with (False, message)
C12_Witness ==
    /\ outcome.op = "decrypt_image"
    /\ outcome.ok = FALSE
    /\ outcome.msg = "Decryption failed: cannot identify image file"
    /\ images["enc.png"] = CorruptImage
    /\ pc = "idle"

\* C13: for every input pixel array and valid key, the ciphertext array produced by
\* encrypt_image has the same shape (height, width, channel count) as the input, and
\* every element is an 8-bit unsigned value in [0,255].
C13_CiphertextShapeAndType ==
    (outcome.op = "encrypt_image" /\ outcome.ok /\ Invertible(key_matrix)) =>
        /\ images["enc.png"].exists
        /\ images["enc.png"].shape = images["in.png"].shape
        /\ images["enc.png"].mode = images["in.png"].mode
        /\ Len(images["enc.png"].data) = Prod(images["in.png"].shape)
        /\ \A n \in 1..Len(images["enc.png"].data) :
              images["enc.png"].data[n] \in 0..255

\* a 1 x 5 grayscale image, padded to 6 values for block size 2, was encrypted under a
\* valid key to a 1 x 5 ciphertext that differs from it
C13_Witness ==
    /\ outcome.op = "encrypt_image"
    /\ outcome.ok
    /\ Invertible(key_matrix)
    /\ block_size = 2
    /\ images["in.png"].shape = <<1, 5>>
    /\ images["enc.png"].shape = <<1, 5>>
    /\ Len(images["enc.png"].data) = 5
    /\ images["enc.png"].data # images["in.png"].data

\* C14: whenever encrypt_image succeeds, the metadata it writes records the input's
\* original shape, its pixel mode, the instance's block size, and the key matrix values
\* that were used to encrypt the blocks of that image: the ciphertext on disk is the
\* input transformed under the recorded key and block size.
C14_MetadataRecordsEncryption ==
    (outcome.op = "encrypt_image" /\ outcome.ok) =>
        LET md == sidecar["enc"]
            input == images["in.png"]
            a == transform_array(md.key_matrix, FALSE, md.block_size,
                                 input.shape, input.data, input.shape)
        IN  /\ md.exists
            /\ md.original_shape = input.shape
            /\ md.image_mode = input.mode
            /\ md.block_size = block_size
            /\ md.key_matrix = key_matrix
            /\ md.key_matrix # None
            /\ a.exc = NoExc
            /\ images["enc.png"].data = a.val

\* the metadata of a 1 x 2 x 3 RGB image encrypted under [[3,2],[5,7]] has been written
C14_Witness ==
    /\ outcome.op = "encrypt_image"
    /\ outcome.ok
    /\ sidecar["enc"] = Metadata(<<1, 2, 3>>, "RGB", 2, K2a)
    /\ images["enc.png"].exists
    /\ images["enc.png"].data # images["in.png"].data

\* enc.png and its metadata file are a pair written by one encryption of in.png under a
\* valid key: the ciphertext is the input transformed under the recorded key
MetadataDescribesCiphertext ==
    LET md == sidecar["enc"]
        input == images["in.png"]
        a == transform_array(md.key_matrix, FALSE, md.block_size,
                             input.shape, input.data, input.shape)
    IN  /\ md.exists
        /\ Invertible(md.key_matrix)
        /\ md.block_size = Rows(md.key_matrix)
        /\ md.original_shape = input.shape
        /\ md.image_mode = input.mode
        /\ a.exc = NoExc
        /\ images["enc.png"] = ImageFile(input.mode, input.shape, a.val)

\* C15: the key matrix stored in the metadata allows decryption when only the
\* ciphertext-plus-metadata pair is available.  decrypt_image on an instance on which
\* no key was set, given a ciphertext and the metadata file written for it, succeeds and
\* recovers the original image.
C15_DecryptsFromMetadataAlone ==
    (outcome.op = "decrypt_image" /\ key_matrix = None /\ MetadataDescribesCiphertext) =>
        /\ outcome.ok
        /\ images["dec.png"] = images["in.png"]

\* C16: when a metadata file is available, decrypt_image reconstructs its output with
\* the shape and pixel mode recorded in the metadata rather than with the shape and mode
\* of the ciphertext array.
C16_OutputShapeFromMetadata ==
    (outcome.op = "decrypt_image" /\ outcome.ok /\ sidecar["enc"].exists) =>
        /\ images["dec.png"].exists
        /\ images["dec.png"].shape = sidecar["enc"].original_shape
        /\ images["dec.png"].mode = sidecar["enc"].image_mode
        /\ Len(images["dec.png"].data) = Prod(sidecar["enc"].original_shape)

\* a 1 x 2 x 3 RGB ciphertext was decrypted next to the metadata file of a 2 x 3 image of
\* mode L: the output is 2 x 3 of mode L
C16_Witness ==
    /\ outcome.op = "decrypt_image"
    /\ outcome.ok
    /\ images["enc.png"].shape = <<1, 2, 3>>
    /\ images["enc.png"].mode = "RGB"
    /\ sidecar["enc"].original_shape = <<2, 3>>
    /\ images["dec.png"].shape = <<2, 3>>
    /\ images["dec.png"].mode = "L"

\* C17: generate_random_key terminates.  Under a fair random source the sampling loop,
\* once it is running, eventually returns a key, for every block size in {2,3,4}.
C17_GenerationTerminates ==
    \A n \in BlockSizes :
        (pc = "generating" /\ block_size = n)
            ~> (pc = "idle" /\ outcome.op = "generate_random_key" /\ outcome.ok
                /\ block_size = n /\ Rows(key_matrix) = n)

\* the loop of a 4 x 4 generation has rejected a sample and is still running
C17_Witness ==
    /\ pc = "generating"
    /\ block_size = 4
    /\ outcome.op = "generate_random_key"
    /\ outcome.ok = FALSE

\* the instance a step has operated on: the image operations of this process are
\* called on cipher, the key operations name their instance in the outcome
OperatedOn(o) ==
    IF o.op \in {"encrypt_image", "decrypt_image"} THEN "cipher" ELSE o.arg

\* C18: all engine state is scoped to a cipher instance.  Any key operation
\* (generate_random_key, set_key_matrix, load_key) or image operation on one instance
\* leaves the key_matrix, inverse_key_matrix and block_size of every other instance
\* unchanged.
C18_InstanceStateIsScoped ==
    [][\A name \in InstanceNames :
          name # OperatedOn(outcome') =>
              [block_size |-> Instances[name].block_size',
               key_matrix |-> Instances[name].key_matrix',
               inverse_key_matrix |-> Instances[name].inverse_key_matrix']
                  = Instances[name]]_vars

\* new_cipher has loaded the 3 x 3 key that cipher saved, and cipher still holds another
\* key and block size
C18_Witness ==
    /\ outcome.op = "load_key"
    /\ outcome.arg = "new_cipher"
    /\ outcome.ok
    /\ caller.new_cipher.key_matrix = K3
    /\ caller.new_cipher.block_size = 3
    /\ key_matrix = K2a
    /\ block_size = 2
    /\ IsInverseMod(inverse_key_matrix, K2a)

\* C19: the determinant used for key validation and matrix inversion is the exact
\* integer determinant of the matrix, for every N x N matrix with entries in [0,255] and
\* N in {2,3,4}; it is obtained by exact integer arithmetic (cofactor expansion) and
\* never by a floating-point routine: the value the determinant routine returns is
\* already the exact integer, and so is the value used.
C19_DeterminantByExactArithmetic ==
    /\ caller.stage \in {"float", "det"} =>
          caller.raw = Float(Determinant(caller.K), 0)
    /\ caller.stage = "det" => caller.det = Determinant(caller.K) % Modulus

\* the flattened channel c of an image, in row-major order; a grayscale image is its
\* own single channel
ChannelOf(image, c) ==
    IF Len(image.shape) = 3 THEN ChannelData(image.shape, image.data, c)
    ELSE image.data

NumChannels(image) == IF Len(image.shape) = 3 THEN image.shape[3] ELSE 1

\* C20: channels and blocks are processed independently.  In the ciphertext of
\* encrypt_image the k-th full block of channel c (elements kN..kN+N-1 of the row-major
\* flattened channel, N the block size) equals encrypt_block of the k-th block of
\* plaintext channel c, and channel order and pixel order are preserved.
C20_BlocksEncryptedIndependently ==
    (outcome.op = "encrypt_image" /\ outcome.ok) =>
        LET input == images["in.png"]
            enc == images["enc.png"]
            N == block_size
        IN  /\ enc.shape = input.shape
            /\ \A c \in 1..NumChannels(input) :
                  \A k \in 0..((ChannelLength(input) \div N) - 1) :
                      LET r == encrypt_block(key_matrix,
                                             SubSeq(ChannelOf(input, c), k * N + 1, k * N + N))
                      IN  /\ r.exc = NoExc
                          /\ SubSeq(ChannelOf(enc, c), k * N + 1, k * N + N) = r.val

\* the number of binary digits of a natural number
RECURSIVE BitLength(_)
BitLength(x) == IF x = 0 THEN 0 ELSE 1 + BitLength(x \div 2)

\* value bits of the narrowest integer type that astype(int) yields on any build of
\* numpy (a 32-bit C long); np.dot of an integer matrix and a uint8 block computes in
\* the matrix's type
IntValueBits == 31

\* the sum over j of m[i][j] * v[j], taken over the integers
RowSum(m, i, v) == SumTo([j \in 1..Cols(m) |-> m[i][j] * v[j]], Cols(m))

\* out is the product of m and v reduced modulo 256, row by row, and no sum of products
\* outgrows the integer type it is computed in
IsProductMod(out, m, v) ==
    /\ Len(out) = Rows(m)
    /\ \A i \in 1..Rows(m) :
          /\ out[i] = RowSum(m, i, v) % Modulus
          /\ out[i] \in 0..255
          /\ BitLength(RowSum(m, i, v)) <= IntValueBits

\* C21: encrypt_block computes result[i] = (sum over j of key[i][j] * block[j]) mod 256
\* for every i, the sum taken over the integers before the reduction (no wrap-around of
\* intermediate products for key and block values in [0,255]), and every output value
\* lies in [0,255]; decrypt_block is the same formula with the cached inverse matrix.
C21_BlockFormula ==
    /\ caller.stage \in {"encrypted", "decrypted"} =>
          IsProductMod(caller.c, key_matrix, caller.b)
    /\ caller.stage = "decrypted" =>
          IsProductMod(caller.d, inverse_key_matrix, caller.c)

\* a block was encrypted and decrypted under a 4 x 4 key, and a sum of products of the
\* encryption exceeded 16 bits before its reduction
C21_Witness ==
    /\ caller.stage = "decrypted"
    /\ block_size = 4
    /\ \E i \in 1..4 : BitLength(RowSum(key_matrix, i, caller.b)) > 16
    /\ IsProductMod(caller.d, inverse_key_matrix, caller.c)

\* C22: pad_data never truncates and only appends at the end.  For every sequence s
\* and block size B the result has length len(s) + (B - len(s) % B) % B, its first
\* len(s) elements are s unchanged, every appended element is 0, and a sequence whose
\* length is already a multiple of B is returned unchanged.
C22_PadAppendsZeros ==
    caller.stage = "padded" =>
        LET s == caller.data
            B == block_size
            out == caller.padded
        IN  /\ Len(out) = Len(s) + ((B - (Len(s) % B)) % B)
            /\ Len(out) % B = 0
            /\ \A n \in 1..Len(s) : out[n] = s[n]
            /\ \A n \in (Len(s) + 1)..Len(out) : out[n] = 0
            /\ Len(s) % B = 0 => out = s

\* five values that end in a zero were padded for block size 3 to six values
C22_Witness ==
    /\ caller.stage = "padded"
    /\ block_size = 3
    /\ Len(caller.data) = 5
    /\ caller.data[5] = 0
    /\ caller.data[1] = 255
    /\ Len(caller.padded) = 6

\* the greatest common divisor by its definition: the largest d that divides both
\* numbers, and 0 for 0 and 0
GreatestCommonDivisor(a, b) ==
    IF a = 0 /\ b = 0 THEN 0
    ELSE LET top == IF a > b THEN a ELSE b
             common == {d \in 1..top : a % d = 0 /\ b % d = 0}
         IN  CHOOSE d \in common : \A e \in common : e <= d

\* x is an inverse of a modulo m
IsInverseOf(x, a, m) == (a * x) % m = 1 % m

\* C23: for every modulus m >= 1 and every integer a >= 0 with gcd(a, m) = 1,
\* mod_inverse(a, m) returns the unique x in [0, m) with a*x congruent to 1 modulo m.
C23_ModInverseIsTheInverse ==
    (/\ caller.stage = "inverse_done"
     /\ caller.m >= 1
     /\ GreatestCommonDivisor(caller.a, caller.m) = 1) =>
        /\ caller.inv.exc = NoExc
        /\ caller.inv.val \in 0..(caller.m - 1)
        /\ IsInverseOf(caller.inv.val, caller.a, caller.m)
        /\ \A x \in 0..(caller.m - 1) :
              IsInverseOf(x, caller.a, caller.m) => x = caller.inv.val

\* mod_inverse(7, 26) of demo.py has returned 15
C23_Witness ==
    /\ caller.stage = "inverse_done"
    /\ caller.a = 7
    /\ caller.m = 26
    /\ caller.inv = Returned(15)

\* C24: mod_inverse(a, m) fails with the no-inverse error, and returns no value, exactly
\* when gcd(a, m) != 1 (in particular for a = 0 and for every even a when m = 256); gcd
\* itself terminates, its loop once entered reaches its return, and it returns the
\* greatest common divisor for all non-negative inputs.
C24_NoInverseIffNotCoprime ==
    /\ [](caller.stage = "inverse_done" =>
            ((/\ caller.inv.exc = "Modular inverse does not exist"
              /\ caller.inv.val = None)
                <=> GreatestCommonDivisor(caller.a, caller.m) # 1))
    /\ [](caller.stage \in {"gcd_done", "inverse_done"} =>
            /\ caller.g = GreatestCommonDivisor(caller.a, caller.m)
            /\ caller.g = gcd(caller.a, caller.m))
    /\ (caller.stage = "gcd_loop" ~> caller.stage = "gcd_done")

\* mod_inverse(254, 256) has raised after gcd returned 2
C24_Witness ==
    /\ caller.stage = "inverse_done"
    /\ caller.a = 254
    /\ caller.m = Modulus
    /\ caller.g = 2
    /\ caller.inv = Raised("Modular inverse does not exist")

\* C25: caller-side synchronisation in the GUI.  When the GUI runs encrypt_image in its
\* background thread and a key change on the shared instance (generate_new_key,
\* load_key, manual set key) interleaves with it, every block of that image operation
\* is transformed with one and the same key and block size, and the key written to the
\* metadata is the key that was used for the blocks.
C25_OneKeyPerImageOperation ==
    /\ \A k \in 1..Len(caller.used) : caller.used[k] = caller.used[1]
    /\ (caller.stage = "returned" /\ caller.ok) =>
          \A k \in 1..Len(caller.used) :
              /\ sidecar["enc"].key_matrix = caller.used[k].key_matrix
              /\ sidecar["enc"].block_size = caller.used[k].block_size

\* C26: after any sequence of constructor, set_key_matrix, generate_random_key and
\* load_key calls (the GUI's manual key entry with a selected size of 2, 3 or 4
\* included), whenever the instance holds a key its dimension N equals the instance's
\* block_size, so that the blocks sliced by encrypt_image and decrypt_image have
\* exactly N elements.
C26_KeyDimensionIsBlockSize ==
    key_matrix # None =>
        /\ Rows(key_matrix) = block_size
        /\ Cols(key_matrix) = block_size

\* C27: a key-loading operation that reports failure leaves the instance unchanged.  In
\* every step in which load_key returns False (unreadable file, malformed record, or a
\* matrix that is not invertible mod 256), key_matrix, inverse_key_matrix and block_size
\* keep the values they had before the call.
C27_FailedLoadChangesNothing ==
    [][(outcome'.op = "load_key" /\ ~outcome'.ok) =>
          UNCHANGED <<key_matrix, inverse_key_matrix, block_size>>]_vars

\* the metadata file next to enc.png is readable and describes that ciphertext: its
\* shape and mode are those of the ciphertext, and the ciphertext is the input
\* transformed under the recorded key and block size
SidecarDescribesCiphertext ==
    LET md == sidecar["enc"]
        enc == images["enc.png"]
        input == images["in.png"]
        a == transform_array(md.key_matrix, FALSE, md.block_size,
                             input.shape, input.data, input.shape)
    IN  /\ md # CorruptSidecar
        /\ enc # CorruptImage
        /\ md.original_shape = enc.shape
        /\ md.image_mode = enc.mode
        /\ a.exc = NoExc
        /\ enc.data = a.val

\* C28 as stated: encrypt_image writes the ciphertext image before the metadata sidecar
\* and returns success only after both have been written; consequently, after any
\* sequence of encrypt_image calls to the same output path (some of which may fail), a
\* sidecar present next to a ciphertext file describes the key and shape of that
\* ciphertext.
C28_SidecarAlwaysDescribesCiphertext ==
    /\ (outcome.op = "encrypt_image" /\ outcome.ok) =>
          (images["enc.png"].exists /\ sidecar["enc"].exists)
    /\ (images["enc.png"].exists /\ sidecar["enc"].exists) => SidecarDescribesCiphertext

\* C28 amended: encrypt_image writes the ciphertext image before the metadata sidecar
\* and returns success only after both have been written.  Whenever a call touches the
\* sidecar the complete ciphertext of that call is already on disk, and whenever the
\* last encrypt_image call returned success the sidecar next to the ciphertext describes
\* the key and shape of that ciphertext; after a call that failed the pair on disk may
\* be inconsistent.
C28_SidecarDescribesAfterSuccess ==
    /\ []((outcome.op = "encrypt_image" /\ outcome.ok) =>
            /\ images["enc.png"].exists
            /\ sidecar["enc"].exists
            /\ sidecar["enc"].key_matrix = key_matrix
            /\ SidecarDescribesCiphertext)
    /\ [][sidecar' # sidecar =>
            LET input == images["in.png"]
                a == transform_array(key_matrix, FALSE, block_size,
                                     input.shape, input.data, input.shape)
            IN  /\ outcome'.op = "encrypt_image"
                /\ a.exc = NoExc
                /\ images'["enc.png"] = ImageFile(input.mode, input.shape, a.val)]_vars

\* a call whose metadata write broke off has failed: the ciphertext it wrote first is
\* complete, the sidecar next to it is unreadable
C28_Witness ==
    /\ outcome.op = "encrypt_image"
    /\ outcome.ok = FALSE
    /\ outcome.msg = "Encryption failed: cannot write file"
    /\ images["enc.png"].exists
    /\ images["enc.png"] # CorruptImage
    /\ sidecar["enc"] = CorruptSidecar

\* C29: when no metadata sidecar exists at the given or derived path, decrypt_image
\* does not fail for that reason: it takes the shape and the pixel mode from the
\* ciphertext image itself and decrypts with the instance's current inverse key (it
\* fails only where the image, the key or the write fails); the sidecar path it derives
\* by default from the ciphertext path is the path encrypt_image derives from its
\* output path.
C29_DecryptsWithoutSidecar ==
    /\ \A path \in PathPool :
          decrypt_metadata_path(path, NoPath) = encrypt_metadata_path(path)
    /\ (outcome.op = "decrypt_image" /\ ~sidecar["enc"].exists) =>
          LET enc == images["enc.png"]
              opened == open_image(enc)
              a == transform_array(inverse_key_matrix, TRUE, block_size,
                                   enc.shape, enc.data, enc.shape)
          IN  IF opened.exc # NoExc
              THEN outcome.msg = "Decryption failed: " \o opened.exc
              ELSE IF a.exc # NoExc
              THEN outcome.msg = "Decryption failed: " \o a.exc
              ELSE \/ outcome.msg = "Decryption failed: cannot write file"
                   \/ /\ outcome.ok
                      /\ images["dec.png"] = ImageFile(enc.mode, enc.shape, a.val)

\* a 1 x 5 ciphertext whose metadata file was never written has been decrypted to a
\* 1 x 5 image of its mode
C29_Witness ==
    /\ outcome.op = "decrypt_image"
    /\ outcome.ok
    /\ ~sidecar["enc"].exists
    /\ images["enc.png"].shape = <<1, 5>>
    /\ images["dec.png"].shape = <<1, 5>>
    /\ images["dec.png"].mode = "L"
    /\ images["dec.png"].data # images["enc.png"].data

\* C30: command-line mode.  run_cli attempts decryption only after the key file exists
\* and load_key succeeded, attempts encryption only after a key was loaded from an
\* existing key file or freshly generated when the file is missing, and returns exit
\* code 0 if and only if the image operation reported success (1 for a missing input
\* file, a missing or unloadable key file, or a failed operation).
C30_CliOrderAndExitCode ==
    /\ [](outcome.op = "run_cli" =>
            /\ outcome.ret \in {0, 1}
            /\ outcome.ret = 0 <=>
                  (outcome.arg.op \in {"encrypt_image", "decrypt_image"} /\ outcome.arg.ok))
    /\ [][/\ outcome'.op = "decrypt_image" =>
               /\ outcome.op = "load_key"
               /\ outcome.ok
               /\ keyfile.kind # "missing"
          /\ outcome'.op = "encrypt_image" =>
               \/ outcome.op = "load_key" /\ outcome.ok /\ keyfile.kind # "missing"
               \/ /\ outcome.op = "save_key"
                  /\ Invertible(key_matrix)
                  /\ Rows(key_matrix) = block_size
          /\ outcome'.op = "generate_random_key" =>
               /\ keyfile.kind = "missing"
               /\ caller.operation = "encrypt"
          /\ outcome'.op = "save_key" =>
               /\ outcome.op = "generate_random_key"
               /\ outcome.ok]_vars

\* an encrypt run without a key file has generated and saved a key, and the decrypt run
\* after it has loaded that key, restored the input image and returned 0
C30_Witness ==
    /\ outcome.op = "run_cli"
    /\ outcome.ret = 0
    /\ outcome.arg.op = "decrypt_image"
    /\ keyfile.kind = "record"
    /\ keyfile.has_block_size
    /\ keyfile.key_matrix = K2b
    /\ images["dec.png"] = images["in.png"]

=============================================================================
